---- MODULE Spec2Model ----
(***************************************************************************)
(* Verification model of the Shopify app starter: the in-memory rate       *)
(* limiter (app/utils/rateLimiter.server.ts), the webhook retry loop       *)
(* (app/utils/webhookVerification.server.ts), the webhook route actions    *)
(* (app/routes/webhooks.*.tsx) and the authentication wrappers             *)
(* (app/utils/auth.server.ts).                                             *)
(*                                                                         *)
(* Times are milliseconds, as returned by Date.now().  The clock moves     *)
(* through the instants of Instants, which hit every window boundary.      *)
(***************************************************************************)
EXTENDS Integers, Sequences, FiniteSets, TLC

VARIABLES
    now,          \* the clock read by Date.now() / the cache's TTL clock
    opts,         \* the option object every rateLimitRequest call passes
    cache,        \* rateLimitCache: key -> entry
    highUsageLog, \* highUsageLog entry of the shop
    last,         \* outcome of the latest rate limiter call (none after a tick)
    admitted,     \* times of the admitted rateLimit calls of the last minute
    evictedAt,    \* time of the latest capacity eviction of the shop's key
    cronLimit,    \* the limit every rateLimitCron call passes
    cronAdmitted, \* <<time, window reset>> of every admitted rateLimitCron call
    retry,        \* the run of handleWebhookWithRetry
    hook,         \* the latest webhook request and what its route action did
    authCall,     \* the latest request through withAuth / withAuthAction
    proc,         \* process.env and what startup validation and the getters did
    db,           \* the Settings table, featureCache and the calls in progress
    dash          \* the dashboard metrics and the insights generated from them

rateVars == <<now, opts, cache, highUsageLog, last, admitted, evictedAt,
              cronLimit, cronAdmitted>>
vars == <<rateVars, retry, hook, authCall, proc, db, dash>>

----------------------------------------------------------------------------
(* Bounds of the model *)

MaxLimit == 2          \* largest sustained / burst / cron limit tried

\* the instants at which something is called: around the end of a burst
\* window, of a sustained window and of the cache's TTL
Instants == {0, 5000, 10000, 15000, 55000, 60000, 65000, 70000, 75000, 130000}

----------------------------------------------------------------------------
(* rateLimiter.server.ts *)

Undefined == -1        \* an option that is not given (limits are >= 0)

burstWindow == 10 * 1000
sustainedWindow == 60 * 1000
cronWindow == 60 * 60 * 1000
cacheTtl == 60 * 1000
highUsageTtl == 5 * 60 * 1000
defaultSustainedLimit == 100
defaultBurstLimit == 40
defaultMaxSize == 10 * 1024 * 1024

ShopKey == "rate-limit:shop"
CronKey == "rate-limit-cron:endpoint"
Keys == {ShopKey, CronKey}

NoBucket == [burstCount |-> 0, burstReset |-> 0, sustainedCount |-> 0, sustainedReset |-> 0]
Absent == [present |-> FALSE, value |-> NoBucket, start |-> 0]

\* LRUCache staleness: an entry is stale once more than ttl has passed since
\* it was set
isStale(entry, ttl, t) == t - entry.start > ttl

\* LRUCache.get: a stale entry is deleted and undefined is returned
cacheGet(c, key, t) ==
    IF c[key].present /\ ~isStale(c[key], cacheTtl, t)
    THEN [hit |-> TRUE, value |-> c[key].value, cache |-> c]
    ELSE [hit |-> FALSE, value |-> NoBucket, cache |-> [c EXCEPT ![key] = Absent]]

\* LRUCache.set: stores the value and restarts the entry's TTL
cacheSet(c, key, b, t) ==
    [c EXCEPT ![key] = [present |-> TRUE, value |-> b, start |-> t]]

\* the bucket a call starts from when the cache has none
newBucket(t) ==
    [burstCount |-> 0, burstReset |-> t + burstWindow,
     sustainedCount |-> 0, sustainedReset |-> t + sustainedWindow]

\* a faulty variant that clears the sustained counter with the burst counter
resetWindowsBoth(b, t) ==
    LET b1 == IF t >= b.burstReset
              THEN [b EXCEPT !.burstCount = 0, !.burstReset = t + burstWindow,
                             !.sustainedCount = 0]
              ELSE b
    IN  IF t >= b1.sustainedReset
        THEN [b1 EXCEPT !.sustainedCount = 0, !.sustainedReset = t + sustainedWindow]
        ELSE b1

\* "Reset burst counter if window expired", "Reset sustained counter if
\* window expired"
resetWindows(b, t) ==
    LET b1 == IF t >= b.burstReset
              THEN [b EXCEPT !.burstCount = 0, !.burstReset = t + burstWindow]
              ELSE b
    IN  IF t >= b1.sustainedReset
        THEN [b1 EXCEPT !.sustainedCount = 0, !.sustainedReset = t + sustainedWindow]
        ELSE b1

\* a faulty variant that compares with > instead of >=
overLimitOffByOne(count, limit) == count > limit

\* the test of "Check burst limit" and of "Check sustained limit"
overLimit(count, limit) == count >= limit

\* a faulty variant that forgets the burst counter
incrementSustainedOnly(b) == [b EXCEPT !.sustainedCount = @ + 1]

\* "Increment both counters"
increment(b) == [b EXCEPT !.burstCount = @ + 1, !.sustainedCount = @ + 1]

\* highUsageLog.has(shop)
highUsageHas(h, t) == h.present /\ ~isStale(h, highUsageTtl, t)

\* rateLimit(shop, sustainedLimit, burstLimit): the cache and the high usage
\* log after the call, and what the call returns or throws.  (The file holds
\* an earlier copy of the function, lines 15-59, with the same steps on the
\* bucket and without the log and the response headers.)  The bucket read
\* from the cache is the cached object itself, so the window resets are
\* visible in the cache even when the call throws.
rateLimit(c, h, t, sustainedLimit, burstLimit) ==
    LET g == cacheGet(c, ShopKey, t)
        b0 == IF g.hit THEN g.value ELSE newBucket(t)
        b1 == resetWindows(b0, t)
        c1 == IF g.hit THEN [g.cache EXCEPT ![ShopKey].value = b1] ELSE g.cache
        b2 == increment(b1)
        rejected == [cache |-> c1, log |-> h, status |-> 429, checked |-> b1,
                     remaining |-> 0, burst |-> FALSE]
    IN  IF overLimit(b1.burstCount, burstLimit) THEN rejected
        ELSE IF overLimit(b1.sustainedCount, sustainedLimit) THEN rejected
        ELSE [cache |-> cacheSet(c1, ShopKey, b2, t),
              log |-> IF 10 * b2.sustainedCount > 4 * sustainedLimit /\ ~highUsageHas(h, t)
                      THEN [present |-> TRUE, start |-> t]
                      ELSE h,
              status |-> 200, checked |-> b1,
              remaining |-> sustainedLimit - b2.sustainedCount,
              burst |-> 10 * b2.burstCount > 7 * burstLimit]

\* rateLimitCron(endpoint, limit)
rateLimitCron(c, t, limit) ==
    LET g == cacheGet(c, CronKey, t)
        b0 == IF g.hit THEN g.value
              ELSE [burstCount |-> 0, burstReset |-> t,
                    sustainedCount |-> 0, sustainedReset |-> t + cronWindow]
        b1 == IF t >= b0.sustainedReset
              THEN [b0 EXCEPT !.sustainedCount = 0, !.sustainedReset = t + cronWindow]
              ELSE b0
        c1 == IF g.hit THEN [g.cache EXCEPT ![CronKey].value = b1] ELSE g.cache
        b2 == [b1 EXCEPT !.sustainedCount = @ + 1]
    IN  IF b1.sustainedCount >= limit
        THEN [cache |-> c1, status |-> 429, checked |-> b1]
        ELSE [cache |-> cacheSet(c1, CronKey, b2, t), status |-> 200, checked |-> b1]

\* the characters a content-length header is made of here
Digits == {"1", "9"}
HeaderChars == Digits \cup {"x"}
DigitValue(ch) == IF ch = "1" THEN 1 ELSE 9

\* the longest prefix of digits of a text
RECURSIVE digitPrefix(_)
digitPrefix(text) ==
    IF text = <<>> \/ Head(text) \notin Digits THEN <<>>
    ELSE <<Head(text)>> \o digitPrefix(Tail(text))

RECURSIVE decimalValue(_)
decimalValue(ds) ==
    IF ds = <<>> THEN 0
    ELSE 10 * decimalValue(SubSeq(ds, 1, Len(ds) - 1)) + DigitValue(ds[Len(ds)])

\* parseInt(text, 10): the number its leading digits spell, NaN without one
parseInt(text) ==
    LET ds == digitPrefix(text)
    IN  IF ds = <<>> THEN [nan |-> TRUE, value |-> 0]
        ELSE [nan |-> FALSE, value |-> decimalValue(ds)]

\* request.headers.get('content-length'): null when the header is missing
NoHeader == [present |-> FALSE, text |-> <<>>]

\* checkRequestSize(request, maxSize): TRUE when it throws the 413 response.
\* A missing or empty header is falsy and is not looked at; NaN > maxSize is
\* false.
checkRequestSize(header, maxSize) ==
    IF header.present /\ header.text # <<>>
    THEN LET size == parseInt(header.text)
         IN  ~size.nan /\ size.value > maxSize
    ELSE FALSE

\* a ?? b ?? d
coalesce(a, b, d) == IF a # Undefined THEN a ELSE IF b # Undefined THEN b ELSE d

sustainedOf(o) == coalesce(o.sustainedLimit, o.maxRequests, defaultSustainedLimit)
burstOf(o) == coalesce(o.burstLimit, o.burstMax, defaultBurstLimit)

\* a faulty variant that runs the rate limit before the size check
rateLimitRequestRateFirst(c, h, t, header, o, maxSizeOpt) ==
    LET maxSize == IF maxSizeOpt = Undefined THEN defaultMaxSize ELSE maxSizeOpt
        r == rateLimit(c, h, t, sustainedOf(o), burstOf(o))
    IN  IF r.status = 200 /\ checkRequestSize(header, maxSize)
        THEN [r EXCEPT !.status = 413]
        ELSE r

\* rateLimitRequest(request, shop, options)
rateLimitRequest(c, h, t, header, o, maxSizeOpt) ==
    LET maxSize == IF maxSizeOpt = Undefined THEN defaultMaxSize ELSE maxSizeOpt
    IN  IF checkRequestSize(header, maxSize)
        THEN [cache |-> c, log |-> h, status |-> 413, checked |-> NoBucket,
              remaining |-> 0, burst |-> FALSE]
        ELSE rateLimit(c, h, t, sustainedOf(o), burstOf(o))

----------------------------------------------------------------------------
(* The rate limiter as a state machine *)

NoCall == [op |-> "none", status |-> 0, header |-> NoHeader, maxSize |-> 0]

\* the option objects tried: explicit limits, the legacy aliases, and both
LimitOptions ==
    {<<l, Undefined>> : l \in 0..MaxLimit} \cup {<<Undefined, 1>>, <<0, 1>>}

OptionSets ==
    {[sustainedLimit |-> s[1], maxRequests |-> s[2],
      burstLimit |-> b[1], burstMax |-> b[2]] : s \in LimitOptions, b \in LimitOptions}

Headers == {NoHeader} \cup
           {[present |-> TRUE, text |-> x] :
              x \in {<<>>, <<"9">>, <<"x">>, <<"1", "1">>, <<"1", "x">>, <<"x", "9">>}}

MaxSizes == {Undefined, 10}

\* nothing has been asked of the retry loop, the webhook routes and the
\* authentication wrappers
NoRetry == [pc |-> "idle", maxRetries |-> 0, attempt |-> 0, lastError |-> "undefined",
            outcomes |-> <<>>, delays |-> <<>>, result |-> "none", thrown |-> "undefined"]
NoHook == [route |-> "none"]
NoAuthCall == [op |-> "none"]

\* nor of environment validation, the schema detection and the insights
NoProc == [startup |-> "none"]
NoDb == [columnExists |-> FALSE]
NoDash == [generated |-> FALSE]

InitCommon ==
    /\ retry = NoRetry
    /\ hook = NoHook
    /\ authCall = NoAuthCall
    /\ proc = NoProc /\ db = NoDb /\ dash = NoDash
    /\ now = 0
    /\ cache = [k \in Keys |-> Absent]
    /\ highUsageLog = [present |-> FALSE, start |-> 0]
    /\ last = NoCall
    /\ admitted = <<>>
    /\ evictedAt = -1
    /\ cronAdmitted = <<>>

InitRate ==
    /\ InitCommon
    /\ opts \in OptionSets
    /\ cronLimit = 10

\* the admissions that a window ending at t still contains
RECURSIVE recent(_, _)
recent(times, t) ==
    IF times = <<>> THEN <<>>
    ELSE IF Head(times) > t - sustainedWindow THEN times
    ELSE recent(Tail(times), t)

\* time passes
Tick ==
    \E t \in Instants :
        /\ t > now
        /\ now' = t
        /\ admitted' = recent(admitted, t)
        /\ evictedAt' = IF evictedAt > t - sustainedWindow THEN evictedAt ELSE -1
        /\ last' = NoCall
        /\ UNCHANGED <<opts, cache, highUsageLog, cronLimit, cronAdmitted,
                       retry, hook, authCall,
                       proc, db, dash>>

\* a caller awaits rateLimit(shop, sustained, burst)
CallRateLimit ==
    LET r == rateLimit(cache, highUsageLog, now, sustainedOf(opts), burstOf(opts))
    IN  /\ cache' = r.cache
        /\ highUsageLog' = r.log
        /\ last' = [NoCall EXCEPT !.op = "rateLimit", !.status = r.status]
        /\ UNCHANGED <<now, opts, admitted, evictedAt, cronLimit, cronAdmitted,
                       retry, hook, authCall,
                       proc, db, dash>>

\* a route awaits rateLimitRequest(request, shop, options)
CallRateLimitRequest ==
    \E header \in Headers, maxSize \in MaxSizes :
        LET r == rateLimitRequest(cache, highUsageLog, now, header, opts, maxSize)
        IN  /\ cache' = r.cache
            /\ highUsageLog' = r.log
            /\ last' = [op |-> "rateLimitRequest", status |-> r.status,
                        header |-> header, maxSize |-> maxSize]
            /\ UNCHANGED <<now, opts, admitted, evictedAt, cronLimit, cronAdmitted,
                       retry, hook, authCall,
                       proc, db, dash>>

\* the cache holds at most 1000 keys: calls for that many other keys (shops,
\* IP addresses, endpoints) push the shop's bucket out of it
EvictShop ==
    /\ cache[ShopKey].present
    /\ cache' = [cache EXCEPT ![ShopKey] = Absent]
    /\ last' = NoCall
    /\ UNCHANGED <<now, opts, highUsageLog, admitted, evictedAt, cronLimit, cronAdmitted,
                       retry, hook, authCall,
                       proc, db, dash>>

NextRate == Tick \/ CallRateLimit \/ EvictShop

Spec == InitRate /\ [][NextRate]_vars

NextRequest == Tick \/ CallRateLimitRequest \/ EvictShop

SpecRequest == InitRate /\ [][NextRequest]_vars

(* The same calls, with the admitted calls of the last minute on record *)

InitSliding ==
    /\ InitCommon
    /\ opts \in {o \in OptionSets : o.maxRequests = Undefined /\ o.burstMax = Undefined}
    /\ cronLimit = 10

ObservedRateLimit ==
    LET r == rateLimit(cache, highUsageLog, now, sustainedOf(opts), burstOf(opts))
    IN  /\ cache' = r.cache
        /\ highUsageLog' = r.log
        /\ admitted' = IF r.status = 200 THEN Append(admitted, now) ELSE admitted
        /\ UNCHANGED <<now, opts, last, evictedAt, cronLimit, cronAdmitted,
                       retry, hook, authCall,
                       proc, db, dash>>

\* an eviction as in EvictShop, at most one per minute
ObservedEvict ==
    /\ cache[ShopKey].present
    /\ evictedAt = -1
    /\ cache' = [cache EXCEPT ![ShopKey] = Absent]
    /\ evictedAt' = now
    /\ UNCHANGED <<now, opts, highUsageLog, last, admitted, cronLimit, cronAdmitted,
                       retry, hook, authCall,
                       proc, db, dash>>

NextSliding == Tick \/ ObservedRateLimit \/ ObservedEvict

SpecSliding == InitSliding /\ [][NextSliding]_vars

InitCron ==
    /\ InitCommon
    /\ opts = [sustainedLimit |-> Undefined, maxRequests |-> Undefined,
               burstLimit |-> Undefined, burstMax |-> Undefined]
    /\ cronLimit \in 0..MaxLimit

\* a cron endpoint awaits rateLimitCron(endpoint, limit)
CallRateLimitCron ==
    LET r == rateLimitCron(cache, now, cronLimit)
    IN  /\ cache' = r.cache
        /\ last' = [NoCall EXCEPT !.op = "rateLimitCron", !.status = r.status]
        /\ cronAdmitted' = IF r.status = 200
                           THEN Append(cronAdmitted, <<now, r.checked.sustainedReset>>)
                           ELSE cronAdmitted
        /\ UNCHANGED <<now, opts, highUsageLog, admitted, evictedAt, cronLimit,
                       retry, hook, authCall,
                       proc, db, dash>>

NextCron == Tick \/ CallRateLimitCron

SpecCron == InitCron /\ [][NextCron]_vars

----------------------------------------------------------------------------
(* Properties of the rate limiter *)

shopEntry == cache[ShopKey]
shopBucket == cache[ShopKey].value

\* C1: with the same limits on every call, the shop's bucket always has
\* burstCount <= burstLimit and sustainedCount <= sustainedLimit.
C1_CountersWithinLimits ==
    shopEntry.present =>
        /\ shopBucket.burstCount <= burstOf(opts)
        /\ shopBucket.sustainedCount <= sustainedOf(opts)

\* a call was rejected while both counters stood at their (positive) limits
C1_Witness ==
    /\ last.op = "rateLimit" /\ last.status = 429
    /\ shopEntry.present
    /\ burstOf(opts) > 0 /\ shopBucket.burstCount = burstOf(opts)
    /\ shopBucket.sustainedCount = sustainedOf(opts)
    /\ now > 0

\* the number of admitted calls later than t - window
admittedSince(window) ==
    Cardinality({i \in DOMAIN admitted : admitted[i] > now - window})

\* C2 as stated: in every interval (t - 60 s, t] at most sustainedLimit calls
\* are admitted, and in every interval (t - 10 s, t] at most burstLimit.
C2_SlidingWindow ==
    /\ admittedSince(sustainedWindow) <= sustainedOf(opts)
    /\ admittedSince(burstWindow) <= burstOf(opts)

\* C2 as amended: the windows are fixed, not sliding.  An interval
\* (t - 60 s, t] in which the shop's bucket was not evicted from the cache
\* overlaps at most two sustained windows and holds at most
\* 2 * sustainedLimit admitted calls; likewise (t - 10 s, t] and
\* 2 * burstLimit.
C2_FixedWindow ==
    /\ evictedAt = -1 => admittedSince(sustainedWindow) <= 2 * sustainedOf(opts)
    /\ evictedAt <= now - burstWindow => admittedSince(burstWindow) <= 2 * burstOf(opts)

\* more calls than the limit were admitted within one minute, and within ten
\* seconds, with the bucket in the cache all along
C2_Witness ==
    /\ evictedAt = -1
    /\ admittedSince(sustainedWindow) > sustainedOf(opts)
    /\ admittedSince(burstWindow) > burstOf(opts)

\* the counters a rateLimit call finds after the window-expiry resets, told
\* from the cache before the call
foundUsable == shopEntry.present /\ now - shopEntry.start <= cacheTtl
foundBurst ==
    IF foundUsable /\ now < shopBucket.burstReset THEN shopBucket.burstCount ELSE 0
foundSustained ==
    IF foundUsable /\ now < shopBucket.sustainedReset THEN shopBucket.sustainedCount ELSE 0

\* C3: a rateLimit call that finds a counter at its limit throws 429,
\* increments no counter and does not set the bucket in the cache; an admitted
\* call increments both counters by exactly one.
C3_RejectLeavesCounters ==
    [][last'.op = "rateLimit" =>
        /\ last'.status \in {200, 429}
        /\ last'.status = 429 <=>
              (foundBurst >= burstOf(opts) \/ foundSustained >= sustainedOf(opts))
        /\ last'.status = 429 =>
              /\ cache'[ShopKey].present = foundUsable
              /\ foundUsable =>
                    /\ cache'[ShopKey].start = shopEntry.start
                    /\ cache'[ShopKey].value.burstCount = foundBurst
                    /\ cache'[ShopKey].value.sustainedCount = foundSustained
        /\ last'.status = 200 =>
              /\ cache'[ShopKey].present
              /\ cache'[ShopKey].start = now
              /\ cache'[ShopKey].value.burstCount = foundBurst + 1
              /\ cache'[ShopKey].value.sustainedCount = foundSustained + 1
    ]_vars

\* a call was rejected for the sustained limit right after its burst window
\* had expired
C3_Witness ==
    /\ last.op = "rateLimit" /\ last.status = 429
    /\ shopEntry.present
    /\ burstOf(opts) > 0
    /\ shopBucket.burstCount = 0
    /\ shopBucket.burstReset = now + burstWindow

\* an admitted call that found both counters above zero
C3_WitnessAdmitted ==
    /\ last.op = "rateLimit" /\ last.status = 200
    /\ shopBucket.burstCount = 2 /\ shopBucket.sustainedCount = 2

\* C4 as stated: between the start of a one-hour window and its
\* sustainedReset no more than limit rateLimitCron calls succeed.
C4_CronHourlyLimit ==
    \A i \in DOMAIN cronAdmitted :
        Cardinality({j \in DOMAIN cronAdmitted :
                        /\ cronAdmitted[j][1] >= cronAdmitted[i][2] - cronWindow
                        /\ cronAdmitted[j][1] < cronAdmitted[i][2]}) <= cronLimit

\* the content length of the latest request, as the size check reads it
lastTooLarge(c) ==
    /\ c.header.present
    /\ ~parseInt(c.header.text).nan
    /\ parseInt(c.header.text).value >
          (IF c.maxSize = Undefined THEN defaultMaxSize ELSE c.maxSize)

\* C5: rateLimitRequest rejects a request whose content-length exceeds maxSize
\* with 413 and leaves the shop's bucket as it was; every other request gets
\* what rateLimit does.
C5_SizeCheckFirst ==
    [][last'.op = "rateLimitRequest" =>
        /\ last'.status = 413 <=> lastTooLarge(last')
        /\ last'.status = 413 => cache' = cache /\ highUsageLog' = highUsageLog
        /\ last'.status # 413 =>
              /\ last'.status \in {200, 429}
              /\ last'.status = 429 <=>
                    (foundBurst >= burstOf(opts) \/ foundSustained >= sustainedOf(opts))
              /\ last'.status = 200 =>
                    cache'[ShopKey].value.sustainedCount = foundSustained + 1
    ]_vars

\* a request was rejected for its size when the bucket's burst window had
\* expired and the call would have been admitted
C5_Witness ==
    /\ last.op = "rateLimitRequest" /\ last.status = 413
    /\ shopEntry.present
    /\ now >= shopBucket.burstReset
    /\ shopBucket.burstCount > 0
    /\ shopBucket.sustainedCount < sustainedOf(opts)

----------------------------------------------------------------------------
(* webhookVerification.server.ts: handleWebhookWithRetry *)

MaxRetries == 4        \* largest maxRetries tried (the default is 3)

Errors == {"e1", "e2"} \* what a handler invocation may throw

\* the rate limiter untouched
RateIdle ==
    /\ now = 0
    /\ opts = [sustainedLimit |-> Undefined, maxRequests |-> Undefined,
               burstLimit |-> Undefined, burstMax |-> Undefined]
    /\ cache = [k \in Keys |-> Absent]
    /\ highUsageLog = [present |-> FALSE, start |-> 0]
    /\ last = NoCall
    /\ admitted = <<>>
    /\ evictedAt = -1
    /\ cronLimit = 10
    /\ cronAdmitted = <<>>

\* a faulty variant that waits the same time after every attempt
fixedDelay(attempt) == 2000

\* Math.pow(2, attempt) * 1000
backoffDelay(attempt) == (2 ^ attempt) * 1000

\* a faulty variant that goes on after a success
afterSuccessContinue(r) ==
    [r EXCEPT !.pc = "loop", !.attempt = @ + 1, !.outcomes = Append(@, "ok")]

\* "await handler(); return;"
afterSuccess(r) ==
    [r EXCEPT !.pc = "done", !.result = "returned", !.outcomes = Append(@, "ok")]

\* the catch block
afterFailure(r, e) ==
    IF r.attempt < r.maxRetries
    THEN [r EXCEPT !.pc = "sleep", !.lastError = e, !.outcomes = Append(@, e),
                   !.delays = Append(@, backoffDelay(r.attempt))]
    ELSE [r EXCEPT !.pc = "loop", !.attempt = @ + 1, !.lastError = e,
                   !.outcomes = Append(@, e)]

InitRetry ==
    /\ RateIdle
    /\ hook = NoHook
    /\ authCall = NoAuthCall
    /\ proc = NoProc /\ db = NoDb /\ dash = NoDash
    /\ \E m \in 0..MaxRetries :
          retry = [NoRetry EXCEPT !.pc = "loop", !.maxRetries = m, !.attempt = 1]

\* the loop test "attempt <= maxRetries", and "throw lastError" after the loop
LoopTest ==
    /\ retry.pc = "loop"
    /\ retry' = IF retry.attempt <= retry.maxRetries
                THEN [retry EXCEPT !.pc = "call"]
                ELSE [retry EXCEPT !.pc = "done", !.result = "threw",
                                   !.thrown = retry.lastError]
    /\ UNCHANGED <<rateVars, hook, authCall, proc, db, dash>>

\* the handler is invoked and resolves
HandlerSucceeds ==
    /\ retry.pc = "call"
    /\ retry' = afterSuccess(retry)
    /\ UNCHANGED <<rateVars, hook, authCall, proc, db, dash>>

\* the handler is invoked and throws
HandlerFails ==
    /\ retry.pc = "call"
    /\ \E e \in Errors : retry' = afterFailure(retry, e)
    /\ UNCHANGED <<rateVars, hook, authCall, proc, db, dash>>

\* the timer of the wait fires
WakeUp ==
    /\ retry.pc = "sleep"
    /\ retry' = [retry EXCEPT !.pc = "loop", !.attempt = @ + 1]
    /\ UNCHANGED <<rateVars, hook, authCall, proc, db, dash>>

NextRetry == LoopTest \/ HandlerSucceeds \/ HandlerFails \/ WakeUp

SpecRetry == InitRetry /\ [][NextRetry]_vars

\* the handler succeeded in some invocation
someSuccess == \E i \in DOMAIN retry.outcomes : retry.outcomes[i] = "ok"

\* C6 as stated: at most maxRetries invocations, none after a success; the
\* call returns normally exactly if some invocation succeeded and otherwise
\* throws the error raised by the last invocation.
C6_RetryContract ==
    /\ Len(retry.outcomes) <= retry.maxRetries
    /\ \A i \in DOMAIN retry.outcomes :
          retry.outcomes[i] = "ok" => i = Len(retry.outcomes)
    /\ retry.pc = "done" =>
          /\ retry.result = "returned" <=> someSuccess
          /\ retry.result = "threw" =>
                /\ retry.outcomes # <<>>
                /\ retry.thrown = retry.outcomes[Len(retry.outcomes)]

\* C6 as amended: as stated when maxRetries >= 1; with maxRetries = 0 the
\* handler is never invoked and the call throws undefined.
C6_RetryContractFromOne ==
    /\ Len(retry.outcomes) <= retry.maxRetries
    /\ \A i \in DOMAIN retry.outcomes :
          retry.outcomes[i] = "ok" => i = Len(retry.outcomes)
    /\ retry.pc = "done" =>
          /\ retry.result = "returned" <=> someSuccess
          /\ retry.result = "threw" =>
                IF retry.maxRetries >= 1
                THEN /\ Len(retry.outcomes) = retry.maxRetries
                     /\ retry.thrown = retry.outcomes[Len(retry.outcomes)]
                ELSE retry.outcomes = <<>> /\ retry.thrown = "undefined"

\* the call returned after two failed invocations and a successful one
C6_Witness ==
    /\ retry.pc = "done" /\ retry.result = "returned"
    /\ Len(retry.outcomes) = 3
    /\ retry.maxRetries > 3

\* every invocation failed and the last error, not the first, was thrown
C6_WitnessThrew ==
    /\ retry.pc = "done" /\ retry.result = "threw"
    /\ Len(retry.outcomes) = 3
    /\ retry.outcomes[1] # retry.outcomes[3]

\* C7 as stated: the wait before the next attempt is the same after every
\* failed attempt.
C7_FixedDelay ==
    \A i, j \in DOMAIN retry.delays : retry.delays[i] = retry.delays[j]

\* C7 as amended: the wait grows exponentially: 2 s after the first failed
\* attempt and twice the previous wait after every later one, and no wait
\* follows the last attempt.
C7_ExponentialBackoff ==
    /\ \A i \in DOMAIN retry.delays :
          retry.delays[i] = IF i = 1 THEN 2000 ELSE 2 * retry.delays[i - 1]
    /\ Len(retry.delays) < retry.maxRetries \/ retry.delays = <<>>
    /\ retry.pc = "done" /\ retry.result = "threw" /\ retry.maxRetries >= 1 =>
          Len(retry.delays) = retry.maxRetries - 1

\* three waits were made, of 2, 4 and 8 seconds
C7_Witness ==
    /\ retry.pc = "done"
    /\ Len(retry.delays) = 3
    /\ retry.delays[3] = 8000

----------------------------------------------------------------------------
(* routes/webhooks.*.tsx: the four webhook actions *)

Topics == {"APP_UNINSTALLED", "CUSTOMERS_DATA_REQUEST", "CUSTOMERS_REDACT",
           "SHOP_REDACT", "ORDERS_CREATE"}

\* the shop authenticate.webhook returns: a domain, the empty string or none
Shops == {[defined |-> TRUE, domain |-> "shop.myshopify.com"],
          [defined |-> TRUE, domain |-> ""],
          [defined |-> FALSE, domain |-> ""]}

\* the parsed body: an object with or without a customer, or JSON null
Payloads == {"customer", "no customer", "null"}

\* what awaiting authenticate.webhook(request) gives: it throws, or it
\* returns the topic, the shop and the payload of a verified request
WebhookAuths ==
    {[ok |-> FALSE, topic |-> "none", shop |-> [defined |-> FALSE, domain |-> ""],
      payload |-> "null"]}
    \cup {[ok |-> TRUE, topic |-> t, shop |-> sh, payload |-> pl] :
            t \in Topics, sh \in Shops, pl \in Payloads}

\* !shop
falsy(shop) == ~shop.defined \/ shop.domain = ""

authFailure == [kind |-> "threw", status |-> 401, body |-> "Unauthorized"]
invalidWebhook == [kind |-> "returned", status |-> 400, body |-> "Invalid webhook"]
okResponse == [kind |-> "returned", status |-> 200, body |-> "OK"]
typeError == [kind |-> "threw", status |-> 0, body |-> "TypeError"]

\* webhooks.app.uninstalled.tsx
appUninstalledAction(a) ==
    IF ~a.ok THEN authFailure
    ELSE IF falsy(a.shop) \/ a.topic # "APP_UNINSTALLED" THEN invalidWebhook
    ELSE okResponse

\* webhooks.customers.data_request.tsx
customersDataRequestAction(a) ==
    IF ~a.ok THEN authFailure
    ELSE IF falsy(a.shop) \/ a.topic # "CUSTOMERS_DATA_REQUEST" THEN invalidWebhook
    ELSE okResponse

\* webhooks.customers.redact.tsx; payload.customer?.id throws on a null payload
customersRedactAction(a) ==
    IF ~a.ok THEN authFailure
    ELSE IF falsy(a.shop) \/ a.topic # "CUSTOMERS_REDACT" THEN invalidWebhook
    ELSE IF a.payload = "null" THEN typeError
    ELSE okResponse

\* a faulty variant that accepts whatever has a shop or the right topic
shopRedactActionAnd(a) ==
    IF ~a.ok THEN authFailure
    ELSE IF falsy(a.shop) /\ a.topic # "SHOP_REDACT" THEN invalidWebhook
    ELSE okResponse

\* webhooks.shop.redact.tsx
shopRedactAction(a) ==
    IF ~a.ok THEN authFailure
    ELSE IF falsy(a.shop) \/ a.topic # "SHOP_REDACT" THEN invalidWebhook
    ELSE okResponse

InitWebhooks ==
    /\ RateIdle
    /\ retry = NoRetry
    /\ hook = NoHook
    /\ authCall = NoAuthCall
    /\ proc = NoProc /\ db = NoDb /\ dash = NoDash

AppUninstalled ==
    /\ \E a \in WebhookAuths :
          hook' = [route |-> "webhooks/app/uninstalled", auth |-> a,
                   response |-> appUninstalledAction(a)]
    /\ UNCHANGED <<rateVars, retry, authCall, proc, db, dash>>

CustomersDataRequest ==
    /\ \E a \in WebhookAuths :
          hook' = [route |-> "webhooks/customers/data_request", auth |-> a,
                   response |-> customersDataRequestAction(a)]
    /\ UNCHANGED <<rateVars, retry, authCall, proc, db, dash>>

CustomersRedact ==
    /\ \E a \in WebhookAuths :
          hook' = [route |-> "webhooks/customers/redact", auth |-> a,
                   response |-> customersRedactAction(a)]
    /\ UNCHANGED <<rateVars, retry, authCall, proc, db, dash>>

ShopRedact ==
    /\ \E a \in WebhookAuths :
          hook' = [route |-> "webhooks/shop/redact", auth |-> a,
                   response |-> shopRedactAction(a)]
    /\ UNCHANGED <<rateVars, retry, authCall, proc, db, dash>>

NextWebhooks == AppUninstalled \/ CustomersDataRequest \/ CustomersRedact \/ ShopRedact

SpecWebhooks == InitWebhooks /\ [][NextWebhooks]_vars

\* the topic each route is registered for
routeTopic(route) ==
    CASE route = "webhooks/app/uninstalled" -> "APP_UNINSTALLED"
      [] route = "webhooks/customers/data_request" -> "CUSTOMERS_DATA_REQUEST"
      [] route = "webhooks/customers/redact" -> "CUSTOMERS_REDACT"
      [] route = "webhooks/shop/redact" -> "SHOP_REDACT"

\* C8: a webhook action answers 200 only after authenticate.webhook succeeded
\* with a non-empty shop and the route's own topic; an empty shop or another
\* topic gets 400 "Invalid webhook"; a failed authentication never gets 200.
C8_WebhookGuards ==
    hook.route # "none" =>
        /\ hook.response.status = 200 =>
              /\ hook.auth.ok
              /\ hook.auth.shop.defined /\ hook.auth.shop.domain # ""
              /\ hook.auth.topic = routeTopic(hook.route)
              /\ hook.response.kind = "returned" /\ hook.response.body = "OK"
        /\ (hook.auth.ok /\ (~hook.auth.shop.defined \/ hook.auth.shop.domain = ""
                              \/ hook.auth.topic # routeTopic(hook.route))) =>
              hook.response = invalidWebhook
        /\ ~hook.auth.ok => hook.response.kind = "threw" /\ hook.response.status # 200

\* shop/redact refused a verified request that carried another route's topic
C8_Witness ==
    /\ hook.route = "webhooks/shop/redact"
    /\ hook.auth.ok /\ hook.auth.shop.domain # ""
    /\ hook.auth.topic = "CUSTOMERS_REDACT"
    /\ hook.response.status = 400

\* shop/redact answered 200
C8_WitnessOk ==
    /\ hook.route = "webhooks/shop/redact"
    /\ hook.response.status = 200

----------------------------------------------------------------------------
(* auth.server.ts: enhancedAuthenticate, withAuth, withAuthAction *)

Null == <<"null">>     \* a header that is not sent: headers.get gives null

\* header values are texts, written as sequences of their parts
Accepts == {Null, <<"text/html">>, <<"application/json">>, <<"*/*">>,
            <<"text/html", ",", "application/json">>}
RemixFlags == {Null, <<"true">>, <<"false">>}
RequestedWiths == {Null, <<"XMLHttpRequest">>, <<"xmlhttprequest">>, <<"fetch">>}
Methods == {"GET", "POST", "PUT", "patch"}

\* the query of request.url: none, empty ("/app?"), or its parts
NoQuery == <<"none">>
Queries == {NoQuery, <<>>, <<"shop=a">>, <<"shop=a", "&", "host=h">>,
            <<"shop=a", "?", "embedded=1">>}

Requests ==
    [accept : Accepts, xRemixRequest : RemixFlags, xRemixFetch : RemixFlags,
     xRequestedWith : RequestedWiths, method : Methods, query : Queries]

Sessions == {"session1", "session2"}

\* what awaiting authenticate.admin(request) gives
AdminAuths == {[ok |-> FALSE, session |-> "none"]}
              \cup {[ok |-> TRUE, session |-> x] : x \in Sessions}

\* text?.includes(part)
includes(text, part) ==
    text # Null /\ \E i \in DOMAIN text : text[i] = part

\* String.prototype.toLowerCase / toUpperCase on the texts used here
toLowerCase(part) ==
    IF part = "XMLHttpRequest" THEN "xmlhttprequest" ELSE part
toUpperCase(part) ==
    IF part = "patch" THEN "PATCH" ELSE part

\* new URL(request.url).search: "" for a missing or empty query
urlSearch(query) ==
    IF query = NoQuery \/ query = <<>> THEN <<>> ELSE <<"?">> \o query

jsonError == [status |-> 401, needsRefresh |-> TRUE, location |-> <<>>]

\* redirect(url): a 302 response with the Location header
redirectTo(url) == [status |-> 302, needsRefresh |-> FALSE, location |-> url]

\* a faulty variant that sends every failure to /auth without the query
enhancedAuthenticateBareRedirect(request, admin) ==
    IF admin.ok THEN [kind |-> "returned", auth |-> admin.session, response |-> jsonError]
    ELSE IF \/ includes(request.accept, "application/json")
            \/ request.xRemixRequest = <<"true">>
            \/ request.xRemixFetch = <<"true">>
            \/ (request.xRequestedWith # Null
                /\ toLowerCase(request.xRequestedWith[1]) = "xmlhttprequest")
            \/ toUpperCase(request.method) = "POST"
    THEN [kind |-> "threw", auth |-> "none", response |-> jsonError]
    ELSE [kind |-> "threw", auth |-> "none", response |-> redirectTo(<<"/auth">>)]

\* enhancedAuthenticate(request), given what authenticate.admin does
enhancedAuthenticate(request, admin) ==
    IF admin.ok THEN [kind |-> "returned", auth |-> admin.session, response |-> jsonError]
    ELSE IF \/ includes(request.accept, "application/json")
            \/ request.xRemixRequest = <<"true">>
            \/ request.xRemixFetch = <<"true">>
            \/ (request.xRequestedWith # Null
                /\ toLowerCase(request.xRequestedWith[1]) = "xmlhttprequest")
            \/ toUpperCase(request.method) = "POST"
    THEN [kind |-> "threw", auth |-> "none", response |-> jsonError]
    ELSE [kind |-> "threw", auth |-> "none",
          response |-> redirectTo(<<"/auth">> \o urlSearch(request.query))]

\* what the wrapped loader or action does when it is called
LoaderBehaviours == {"returns", "throws response", "throws error", "rejects"}

loaderValue == [status |-> 200, needsRefresh |-> FALSE, location |-> <<>>]
loaderResponse == [status |-> 404, needsRefresh |-> FALSE, location |-> <<>>]

\* a faulty variant that lets the response thrown by enhancedAuthenticate escape
wrapRethrows(e, behaviour) ==
    IF e.kind = "threw"
    THEN [kind |-> "threw", value |-> e.response, calls |-> 0, arg |-> "none"]
    ELSE [kind |-> IF behaviour = "returns" THEN "returned" ELSE "threw",
          value |-> IF behaviour = "returns" THEN loaderValue ELSE loaderResponse,
          calls |-> 1, arg |-> e.auth]

\* the function withAuth / withAuthAction return, applied to a request: e is
\* what enhancedAuthenticate did.  "return loader(...)" is not awaited, so a
\* rejection of the loader's promise passes the catch block by.
wrap(e, behaviour) ==
    IF e.kind = "threw"
    THEN \* e instanceof Response
         [kind |-> "returned", value |-> e.response, calls |-> 0, arg |-> "none"]
    ELSE CASE behaviour = "returns" ->
                [kind |-> "returned", value |-> loaderValue, calls |-> 1, arg |-> e.auth]
           [] behaviour = "throws response" ->
                [kind |-> "returned", value |-> loaderResponse, calls |-> 1, arg |-> e.auth]
           [] behaviour = "throws error" ->
                [kind |-> "threw", value |-> loaderResponse, calls |-> 1, arg |-> e.auth]
           [] behaviour = "rejects" ->
                [kind |-> "threw", value |-> loaderResponse, calls |-> 1, arg |-> e.auth]

withAuth(request, admin, behaviour) == wrap(enhancedAuthenticate(request, admin), behaviour)

withAuthAction(request, admin, behaviour) ==
    wrap(enhancedAuthenticate(request, admin), behaviour)

notCalled == [kind |-> "none", value |-> jsonError, calls |-> 0, arg |-> "none"]

\* a request has arrived, and authenticate.admin will accept or refuse it
InitAuth ==
    /\ RateIdle
    /\ retry = NoRetry
    /\ hook = NoHook
    /\ proc = NoProc /\ db = NoDb /\ dash = NoDash
    /\ \E request \in Requests, admin \in AdminAuths :
          authCall = [op |-> "none", request |-> request, admin |-> admin,
                      inner |-> [kind |-> "none", auth |-> "none", response |-> jsonError],
                      outer |-> notCalled]

\* a route calls enhancedAuthenticate itself
CallEnhancedAuthenticate ==
    /\ authCall' = [authCall EXCEPT
                      !.op = "enhancedAuthenticate",
                      !.inner = enhancedAuthenticate(authCall.request, authCall.admin),
                      !.outer = notCalled]
    /\ UNCHANGED <<rateVars, retry, hook, proc, db, dash>>

\* a loader wrapped by withAuth is requested
CallWithAuth ==
    /\ \E behaviour \in LoaderBehaviours :
          authCall' = [authCall EXCEPT
                         !.op = "withAuth",
                         !.inner = enhancedAuthenticate(authCall.request, authCall.admin),
                         !.outer = withAuth(authCall.request, authCall.admin, behaviour)]
    /\ UNCHANGED <<rateVars, retry, hook, proc, db, dash>>

\* an action wrapped by withAuthAction is requested
CallWithAuthAction ==
    /\ \E behaviour \in LoaderBehaviours :
          authCall' = [authCall EXCEPT
                         !.op = "withAuthAction",
                         !.inner = enhancedAuthenticate(authCall.request, authCall.admin),
                         !.outer = withAuthAction(authCall.request, authCall.admin, behaviour)]
    /\ UNCHANGED <<rateVars, retry, hook, proc, db, dash>>

NextAuth == CallEnhancedAuthenticate \/ CallWithAuth \/ CallWithAuthAction

SpecAuth == InitAuth /\ [][NextAuth]_vars

\* the query string of a URL: what follows its first "?"
RECURSIVE queryString(_)
queryString(url) ==
    IF url = <<>> THEN <<>>
    ELSE IF Head(url) = "?" THEN Tail(url)
    ELSE queryString(Tail(url))

\* the request asks for JSON or is a fetch, an XMLHttpRequest or a POST
wantsJson(request) ==
    \/ request.accept \in {<<"application/json">>, <<"text/html", ",", "application/json">>}
    \/ request.xRemixRequest = <<"true">>
    \/ request.xRemixFetch = <<"true">>
    \/ request.xRequestedWith \in {<<"XMLHttpRequest">>, <<"xmlhttprequest">>}
    \/ request.method = "POST"

\* C9: when authenticate.admin fails, enhancedAuthenticate throws the 401
\* JSON response (needsRefresh) for a request that wants JSON, and for every
\* other request a redirect to /auth with exactly the request's query string;
\* it never returns.
C9_FailureResponse ==
    (authCall.op # "none" /\ ~authCall.admin.ok) =>
        /\ authCall.inner.kind = "threw"
        /\ IF wantsJson(authCall.request)
           THEN /\ authCall.inner.response.status = 401
                /\ authCall.inner.response.needsRefresh
           ELSE /\ authCall.inner.response.status = 302
                /\ Head(authCall.inner.response.location) = "/auth"
                /\ queryString(authCall.inner.response.location) =
                      (IF authCall.request.query = NoQuery THEN <<>>
                       ELSE authCall.request.query)

\* a failed page load with a query that contains a "?" was redirected
C9_Witness ==
    /\ authCall.op = "enhancedAuthenticate"
    /\ ~authCall.admin.ok
    /\ authCall.request.query = <<"shop=a", "?", "embedded=1">>
    /\ authCall.inner.response.status = 302

\* a failed XMLHttpRequest got the 401
C9_WitnessJson ==
    /\ authCall.op = "enhancedAuthenticate"
    /\ ~authCall.admin.ok
    /\ authCall.request.xRequestedWith = <<"XMLHttpRequest">>
    /\ authCall.request.method = "GET"
    /\ authCall.inner.response.status = 401

\* C10: when authentication fails the wrapped function is not invoked and
\* the wrapper returns the Response enhancedAuthenticate threw; when it
\* succeeds the wrapped function is invoked once, with the auth result.
C10_WrapperGuards ==
    authCall.op \in {"withAuth", "withAuthAction"} =>
        IF authCall.admin.ok
        THEN authCall.outer.calls = 1 /\ authCall.outer.arg = authCall.admin.session
        ELSE /\ authCall.outer.calls = 0
             /\ authCall.outer.kind = "returned"
             /\ authCall.inner.kind = "threw"
             /\ authCall.outer.value = authCall.inner.response

\* a wrapped action returned the redirect of a failed authentication
C10_Witness ==
    /\ authCall.op = "withAuthAction"
    /\ ~authCall.admin.ok
    /\ authCall.outer.kind = "returned"
    /\ authCall.outer.value.status = 302

----------------------------------------------------------------------------
(* env.server.ts: validateEnv, validateEnvOrThrow, getRequiredEnv *)

MaxDeviations == 2     \* variables that differ from a valid environment

\* ENV_VARS, in the order of the table
EnvKeys == <<"SHOPIFY_API_KEY", "SHOPIFY_API_SECRET", "SHOPIFY_APP_URL", "SCOPES",
             "DATABASE_URL", "SESSION_SECRET", "RESEND_API_KEY", "CRON_SECRET",
             "ADMIN_SECRET", "MIGRATION_SECRET", "NODE_ENV", "DEBUG_MODE",
             "LOG_FORMAT", "SHOP_CUSTOM_DOMAIN">>
EnvKeySet == {EnvKeys[i] : i \in DOMAIN EnvKeys}

\* a faulty variant that forgets that SESSION_SECRET is required
isRequiredButSession(key) ==
    key \in {"SHOPIFY_API_KEY", "SHOPIFY_API_SECRET", "SHOPIFY_APP_URL", "SCOPES",
             "DATABASE_URL"}

\* the required flag of the table
isRequired(key) ==
    key \in {"SHOPIFY_API_KEY", "SHOPIFY_API_SECRET", "SHOPIFY_APP_URL", "SCOPES",
             "DATABASE_URL", "SESSION_SECRET"}

\* the entries that have a validation function
hasValidation(key) ==
    key \in {"SHOPIFY_API_KEY", "SHOPIFY_API_SECRET", "SHOPIFY_APP_URL", "SCOPES",
             "DATABASE_URL", "SESSION_SECRET", "NODE_ENV", "DEBUG_MODE", "LOG_FORMAT"}

\* values are texts, written as sequences of their parts; a variable that is
\* not in process.env reads as undefined
Unset == [set |-> FALSE, text |-> <<>>]
Text(t) == [set |-> TRUE, text |-> t]

\* the number of characters of a part: "k16" and "k15" stand for 16 and 15
\* characters of key material, every other part for one character or more
partLength(part) == IF part = "k16" THEN 16 ELSE IF part = "k15" THEN 15 ELSE 1

RECURSIVE textLength(_)
textLength(t) == IF t = <<>> THEN 0 ELSE partLength(Head(t)) + textLength(Tail(t))

startsWith(t, prefix) == t # <<>> /\ Head(t) = prefix
textIncludes(t, part) == \E i \in DOMAIN t : t[i] = part

\* the validation functions of the table
validation(key, t) ==
    CASE key \in {"SHOPIFY_API_KEY", "SHOPIFY_API_SECRET"} -> textLength(t) > 0
      [] key = "SHOPIFY_APP_URL" -> startsWith(t, "http://") \/ startsWith(t, "https://")
      [] key = "SCOPES" -> textIncludes(t, "read_orders") /\ textIncludes(t, "read_products")
      [] key = "DATABASE_URL" ->
            startsWith(t, "postgres://") \/ startsWith(t, "postgresql://")
      [] key = "SESSION_SECRET" -> textLength(t) >= 32
      [] key = "NODE_ENV" -> t \in {<<"development">>, <<"production">>, <<"test">>}
      [] key = "DEBUG_MODE" -> t = <<"true">> \/ t = <<"false">>
      [] key = "LOG_FORMAT" -> t = <<"json">> \/ t = <<"text">>
      [] OTHER -> TRUE

\* !value
notValue(v) == ~v.set \/ v.text = <<>>

\* a faulty variant that validates the required variables only
checkVarRequiredOnly(key, v) ==
    IF isRequired(key) /\ notValue(v) THEN "missing"
    ELSE IF ~isRequired(key) /\ notValue(v) THEN "warning"
    ELSE IF isRequired(key) /\ hasValidation(key) /\ ~validation(key, v.text) THEN "invalid"
    ELSE "ok"

\* the body of the loop of validateEnv for one entry of the table
checkVar(key, v) ==
    IF isRequired(key) /\ notValue(v) THEN "missing"
    ELSE IF ~isRequired(key) /\ notValue(v) THEN "warning"
    ELSE IF hasValidation(key) /\ ~validation(key, v.text) THEN "invalid"
    ELSE "ok"

\* the keys of the first n entries whose check gives one of the outcomes
RECURSIVE keysWith(_, _, _)
keysWith(environment, outcomes, n) ==
    IF n = 0 THEN <<>>
    ELSE LET before == keysWith(environment, outcomes, n - 1)
             key == EnvKeys[n]
         IN  IF checkVar(key, environment[key]) \in outcomes
             THEN Append(before, key)
             ELSE before

\* validateEnv(): errors holds one entry for each missing and each invalid
\* variable
validateEnv(environment) ==
    LET errors == keysWith(environment, {"missing", "invalid"}, Len(EnvKeys))
    IN  [valid |-> Len(errors) = 0,
         errors |-> errors,
         warnings |-> keysWith(environment, {"warning"}, Len(EnvKeys)),
         missing |-> keysWith(environment, {"missing"}, Len(EnvKeys))]

\* validateEnvOrThrow(): TRUE when it throws
validateEnvOrThrow(environment) == ~validateEnv(environment).valid

\* getRequiredEnv(key): TRUE when it throws
getRequiredEnv(environment, key) == notValue(environment[key])

\* an environment that passes validation, with the optional variables unset
ValidEnv ==
    [k \in EnvKeySet |->
        CASE k = "SHOPIFY_API_KEY" -> Text(<<"key">>)
          [] k = "SHOPIFY_API_SECRET" -> Text(<<"secret">>)
          [] k = "SHOPIFY_APP_URL" -> Text(<<"https://", "app.example">>)
          [] k = "SCOPES" -> Text(<<"read_orders", ",", "read_products">>)
          [] k = "DATABASE_URL" -> Text(<<"postgresql://", "db">>)
          [] k = "SESSION_SECRET" -> Text(<<"k16", "k16">>)
          [] OTHER -> Unset]

\* the other values tried for a variable
OtherValues(k) ==
    {Unset, Text(<<>>)} \cup
    CASE k = "SHOPIFY_APP_URL" -> {Text(<<"http://", "app.example">>),
                                   Text(<<"ftp://", "app.example">>)}
      [] k = "SCOPES" -> {Text(<<"read_orders">>),
                          Text(<<"write_products", ",", "read_products", ",", "read_orders">>)}
      [] k = "DATABASE_URL" -> {Text(<<"postgres://", "db">>), Text(<<"mysql://", "db">>)}
      [] k = "SESSION_SECRET" -> {Text(<<"k16", "k15">>), Text(<<"k16", "k16", "x">>)}
      [] k = "NODE_ENV" -> {Text(<<"development">>), Text(<<"staging">>)}
      [] k = "DEBUG_MODE" -> {Text(<<"true">>), Text(<<"yes">>)}
      [] k = "LOG_FORMAT" -> {Text(<<"json">>), Text(<<"xml">>)}
      [] OTHER -> {Text(<<"value">>)}

\* the environments that differ from ValidEnv in at most n variables
RECURSIVE Environments(_)
Environments(n) ==
    IF n = 0 THEN {ValidEnv}
    ELSE LET fewer == Environments(n - 1)
         IN  fewer \cup UNION {{[e EXCEPT ![k] = v] : v \in OtherValues(k)} :
                                 e \in fewer, k \in EnvKeySet}

NoGet == [key |-> "none", threw |-> FALSE]
NoResult == [valid |-> FALSE, errors |-> <<>>, warnings |-> <<>>, missing |-> <<>>]

InitEnv ==
    /\ RateIdle
    /\ retry = NoRetry /\ hook = NoHook /\ authCall = NoAuthCall
    /\ db = NoDb /\ dash = NoDash
    /\ \E e \in Environments(MaxDeviations) :
          proc = [startup |-> "none", env |-> e, result |-> NoResult,
                  changed |-> FALSE, lastGet |-> NoGet]

\* the startup module is imported and calls validateEnvOrThrow()
Startup ==
    /\ proc.startup = "none"
    /\ proc' = [proc EXCEPT
                  !.startup = IF validateEnvOrThrow(proc.env) THEN "threw" ELSE "ok",
                  !.result = validateEnv(proc.env)]
    /\ UNCHANGED <<rateVars, retry, hook, authCall, db, dash>>

\* the keys of the env getters that are built on getRequiredEnv
RequiredGetterKeys == {"SHOPIFY_API_KEY", "SHOPIFY_API_SECRET", "SHOPIFY_APP_URL", "SCOPES",
                       "DATABASE_URL", "SESSION_SECRET"}

\* some code reads an env getter, which calls getRequiredEnv(key)
GetRequiredEnv ==
    /\ \E key \in RequiredGetterKeys :
          proc' = [proc EXCEPT
                     !.lastGet = [key |-> key, threw |-> getRequiredEnv(proc.env, key)]]
    /\ UNCHANGED <<rateVars, retry, hook, authCall, db, dash>>

\* some code deletes a variable from process.env after startup
DeleteEnv ==
    /\ proc.startup # "none"
    /\ ~proc.changed
    /\ \E key \in EnvKeySet :
          /\ proc.env[key].set
          /\ proc' = [proc EXCEPT !.env[key] = Unset, !.changed = TRUE, !.lastGet = NoGet]
    /\ UNCHANGED <<rateVars, retry, hook, authCall, db, dash>>

NextEnv == Startup \/ GetRequiredEnv \/ DeleteEnv

SpecEnv == InitEnv /\ [][NextEnv]_vars

\* the six variables claim C11 calls required
SixRequired == {"SHOPIFY_API_KEY", "SHOPIFY_API_SECRET", "SHOPIFY_APP_URL", "SCOPES",
                "DATABASE_URL", "SESSION_SECRET"}

inSeq(x, sq) == \E i \in DOMAIN sq : sq[i] = x

validated == proc.startup # "none" /\ ~proc.changed

C12_NodeEnvRequired ==
    (validated /\ ~proc.env["NODE_ENV"].set) =>
        /\ inSeq("NODE_ENV", proc.result.missing)
        /\ proc.startup = "threw"

\* C13: after validateEnvOrThrow has returned without throwing, and with
\* process.env unchanged since, getRequiredEnv does not throw for any of the
\* six required keys.
C13_GettersAfterStartup ==
    (proc.startup = "ok" /\ ~proc.changed /\ proc.lastGet.key \in SixRequired) =>
        ~proc.lastGet.threw

\* SESSION_SECRET was read after a startup that passed
C13_Witness ==
    /\ proc.startup = "ok" /\ ~proc.changed
    /\ proc.lastGet.key = "SESSION_SECRET"
    /\ ~proc.lastGet.threw

\* a getter threw after a variable was deleted behind a startup that passed
C13_WitnessChanged ==
    /\ proc.startup = "ok" /\ proc.changed
    /\ proc.lastGet.key = "SESSION_SECRET"
    /\ proc.lastGet.threw

----------------------------------------------------------------------------
(* db-migration.server.ts: detection of the onboarding columns *)

MaxCalls == 3          \* calls of the exported functions in one behaviour

CACHE_TTL == 60000

\* the values Date.now() takes here: within CACHE_TTL of a probe, at it, past it
DbInstants == {0, 5000, 60000, 65000}

Callers == {1, 2}      \* requests whose handlers may overlap at an await

BasicFields == {"appEmbedActivated", "appEmbedActivatedAt",
                "enableRecommendations", "enableMLRecommendations"}
OnboardingFields == {"onboardingCompleted", "onboardingDismissed",
                     "onboardingStepThemeEditor", "onboardingStepRecommendations",
                     "onboardingStepFirstBundle", "onboardingStepPreview"}
\* onboardingCompletedAt is written with onboardingCompleted
OnboardingColumns == OnboardingFields \cup {"onboardingCompletedAt"}

StepIds == {"theme-editor", "recommendations", "first-bundle", "preview", "other"}
Operations == {"hasOnboardingFields", "getSettingsWithOnboarding",
               "updateOnboardingStep", "dismissOnboarding"}

\* featureCache.get('onboarding_fields') of an empty map
NoEntry == [present |-> FALSE, value |-> FALSE, timestamp |-> 0]

\* the Settings row of the shop: absent, or the set of its columns that have
\* been written
NoRow == [exists |-> FALSE, fields |-> {}]

\* a request that is in none of the functions
IdleCall == [pc |-> "idle", op |-> "none", step |-> "none", has |-> FALSE,
             probed |-> FALSE, existedAtCall |-> FALSE, data |-> {}]

\* no function has returned yet
NoReturn == [op |-> "none", step |-> "none", has |-> FALSE,
             selected |-> {}, written |-> {}, returned |-> "none"]

\* the rows the table may hold when the process starts: none, or one with
\* three of the four steps done when the columns exist
InitialRows(columnExists) ==
    {NoRow} \cup
    IF columnExists
    THEN {[exists |-> TRUE,
           fields |-> {"onboardingStepRecommendations", "onboardingStepFirstBundle",
                       "onboardingStepPreview"}]}
    ELSE {[exists |-> TRUE, fields |-> {}]}

InitDb ==
    /\ RateIdle
    /\ retry = NoRetry /\ hook = NoHook /\ authCall = NoAuthCall
    /\ proc = NoProc /\ dash = NoDash
    /\ \E exists \in BOOLEAN : \E row \in InitialRows(exists) :
          db = [columnExists |-> exists, cache |-> NoEntry, row |-> row,
                call |-> [c \in Callers |-> IdleCall], last |-> NoReturn,
                calls |-> 0, lastProbe |-> -1, cleared |-> FALSE]

\* cached && Date.now() - cached.timestamp < CACHE_TTL
cacheValid(entry, t) == entry.present /\ t - entry.timestamp < CACHE_TTL

\* the outcome of the try block: the query succeeds when the database answers
\* and the column exists, and throws otherwise
probeResult(columnExists, ok) == ok /\ columnExists

\* the function of request c returns (or throws)
finish(c, selected, written, returned) ==
    [op |-> db.call[c].op, step |-> db.call[c].step, has |-> db.call[c].has,
     selected |-> selected, written |-> written, returned |-> returned]

\* an exported function is called: it enters hasOnboardingFields, which
\* returns the cached value or issues the query and awaits it; request 2 is
\* one that arrives while request 1 is being served
StartCall(c, ops) ==
    /\ db.call[c].pc = "idle"
    /\ c = 1 \/ db.call[1].pc # "idle"
    /\ db.calls < MaxCalls
    /\ \E op \in ops :
       \E step \in (IF op = "updateOnboardingStep" THEN StepIds ELSE {"none"}) :
          LET hit == cacheValid(db.cache, now)
              started == [IdleCall EXCEPT !.op = op, !.step = step,
                                          !.existedAtCall = db.columnExists]
          IN  db' = [db EXCEPT
                       !.calls = @ + 1,
                       !.cleared = FALSE,
                       !.lastProbe = IF hit THEN @ ELSE now,
                       !.call[c] = IF hit
                                   THEN [started EXCEPT !.pc = "has", !.has = db.cache.value]
                                   ELSE [started EXCEPT !.pc = "probing", !.probed = TRUE]]
    /\ UNCHANGED <<rateVars, retry, hook, authCall, proc, dash>>

\* the awaited query settles: the result is cached with the current time
ProbeDone(c) ==
    /\ db.call[c].pc = "probing"
    /\ \E ok \in BOOLEAN :
          LET value == probeResult(db.columnExists, ok)
          IN  db' = [db EXCEPT
                       !.cache = [present |-> TRUE, value |-> value, timestamp |-> now],
                       !.lastProbe = now,
                       !.call[c] = [@ EXCEPT !.pc = "has", !.has = value]]
    /\ UNCHANGED <<rateVars, retry, hook, authCall, proc, dash>>

\* prisma.settings.upsert: the row is created when absent and the fields of
\* data are set
upsert(row, data) == [exists |-> TRUE, fields |-> row.fields \cup data]

\* a call that only asked hasOnboardingFields returns its value
ReturnHas(c) ==
    /\ db.call[c].pc = "has"
    /\ db.call[c].op = "hasOnboardingFields"
    /\ db' = [db EXCEPT
                !.last = finish(c, {}, {}, IF db.call[c].has THEN "true" ELSE "false"),
                !.call[c] = IdleCall]
    /\ UNCHANGED <<rateVars, retry, hook, authCall, proc, dash>>

\* a faulty variant whose fallback query selects everything
selectionAll(hasOnboarding) == BasicFields \cup OnboardingFields

\* the select of getSettingsWithOnboarding
selection(hasOnboarding) ==
    IF hasOnboarding THEN BasicFields \cup OnboardingFields ELSE BasicFields

\* getSettingsWithOnboarding after hasOnboardingFields: one findUnique
GetSettingsBody(c) ==
    /\ db.call[c].pc = "has"
    /\ db.call[c].op = "getSettingsWithOnboarding"
    /\ \E ok \in BOOLEAN :
          db' = [db EXCEPT
                   !.last = finish(c, selection(db.call[c].has), {},
                                   IF ~ok THEN "threw"
                                   ELSE IF db.row.exists THEN "row" ELSE "null"),
                   !.call[c] = IdleCall]
    /\ UNCHANGED <<rateVars, retry, hook, authCall, proc, dash>>

\* dismissOnboarding after hasOnboardingFields
DismissBody(c) ==
    /\ db.call[c].pc = "has"
    /\ db.call[c].op = "dismissOnboarding"
    /\ \/ /\ ~db.call[c].has
          /\ db' = [db EXCEPT !.last = finish(c, {}, {}, "true"), !.call[c] = IdleCall]
       \/ /\ db.call[c].has
          /\ \E ok \in BOOLEAN :
                db' = [db EXCEPT
                         !.row = IF ok THEN upsert(@, {"onboardingDismissed"}) ELSE @,
                         !.last = finish(c, {}, IF ok THEN {"onboardingDismissed"} ELSE {},
                                         IF ok THEN "true" ELSE "threw"),
                         !.call[c] = IdleCall]
    /\ UNCHANGED <<rateVars, retry, hook, authCall, proc, dash>>

\* updateData of updateOnboardingStep before the completion check
stepData(stepId) ==
    CASE stepId = "theme-editor" -> {"onboardingStepThemeEditor", "appEmbedActivated",
                                     "appEmbedActivatedAt"}
      [] stepId = "recommendations" -> {"onboardingStepRecommendations"}
      [] stepId = "first-bundle" -> {"onboardingStepFirstBundle"}
      [] stepId = "preview" -> {"onboardingStepPreview"}
      [] OTHER -> {}

StepFields == {"onboardingStepThemeEditor", "onboardingStepRecommendations",
               "onboardingStepFirstBundle", "onboardingStepPreview"}

\* updateData after the completion check against currentSettings
completedData(data, current) ==
    IF current.exists /\ StepFields \subseteq (data \cup current.fields)
    THEN data \cup {"onboardingCompleted", "onboardingCompletedAt"}
    ELSE data

\* the data of the fallback upsert of updateOnboardingStep
fallbackData(stepId) ==
    IF stepId = "theme-editor" THEN {"appEmbedActivated", "appEmbedActivatedAt"} ELSE {}

\* updateOnboardingStep without the onboarding columns: the basic activation
\* for theme-editor, nothing for any other step
UpdateStepFallback(c) ==
    /\ db.call[c].pc = "has"
    /\ db.call[c].op = "updateOnboardingStep"
    /\ ~db.call[c].has
    /\ \/ /\ db.call[c].step = "theme-editor"
          /\ \E ok \in BOOLEAN :
                LET data == fallbackData(db.call[c].step)
                IN  db' = [db EXCEPT
                             !.row = IF ok THEN upsert(@, data) ELSE @,
                             !.last = finish(c, {}, IF ok THEN data ELSE {},
                                             IF ok THEN "true" ELSE "threw"),
                             !.call[c] = IdleCall]
       \/ /\ db.call[c].step # "theme-editor"
          /\ db' = [db EXCEPT !.last = finish(c, {}, {}, "false"), !.call[c] = IdleCall]
    /\ UNCHANGED <<rateVars, retry, hook, authCall, proc, dash>>

\* updateOnboardingStep with the onboarding columns: findUnique is awaited and
\* updateData is completed from the row it returned
UpdateStepFind(c) ==
    /\ db.call[c].pc = "has"
    /\ db.call[c].op = "updateOnboardingStep"
    /\ db.call[c].has
    /\ \E ok \in BOOLEAN :
          db' = [db EXCEPT
                   !.last = IF ok THEN @ ELSE finish(c, {}, {}, "threw"),
                   !.call[c] =
                      IF ok
                      THEN [@ EXCEPT !.pc = "found",
                                     !.data = completedData(stepData(db.call[c].step), db.row)]
                      ELSE IdleCall]
    /\ UNCHANGED <<rateVars, retry, hook, authCall, proc, dash>>

\* the upsert of updateData
UpdateStepUpsert(c) ==
    /\ db.call[c].pc = "found"
    /\ \E ok \in BOOLEAN :
          db' = [db EXCEPT
                   !.row = IF ok THEN upsert(@, db.call[c].data) ELSE @,
                   !.last = finish(c, BasicFields \cup OnboardingColumns,
                                   IF ok THEN db.call[c].data ELSE {},
                                   IF ok THEN "true" ELSE "threw"),
                   !.call[c] = IdleCall]
    /\ UNCHANGED <<rateVars, retry, hook, authCall, proc, dash>>

\* the migration that adds the onboarding columns is run
Migrate ==
    /\ ~db.columnExists
    /\ db' = [db EXCEPT !.columnExists = TRUE]
    /\ UNCHANGED <<rateVars, retry, hook, authCall, proc, dash>>

\* clearFeatureCache()
ClearFeatureCache ==
    /\ db.cache.present
    /\ db' = [db EXCEPT !.cache = NoEntry, !.lastProbe = -1, !.cleared = TRUE]
    /\ UNCHANGED <<rateVars, retry, hook, authCall, proc, dash>>

\* time passes
TickDb ==
    /\ \E t \in DbInstants : t > now /\ now' = t
    /\ UNCHANGED <<opts, cache, highUsageLog, last, admitted, evictedAt, cronLimit,
                   cronAdmitted, retry, hook, authCall, proc, db, dash>>

\* hasOnboardingFields on its own, with the clock, the migration and
\* clearFeatureCache
NextDb ==
    \/ TickDb
    \/ Migrate
    \/ ClearFeatureCache
    \/ \E c \in Callers : StartCall(c, {"hasOnboardingFields"})
    \/ \E c \in Callers : ProbeDone(c)
    \/ \E c \in Callers : ReturnHas(c)

SpecDb == InitDb /\ [][NextDb]_vars

\* the three functions that branch on hasOnboardingFields, within one period
\* of the cache
NextOnboarding ==
    \/ Migrate
    \/ \E c \in Callers : StartCall(c, Operations \ {"hasOnboardingFields"})
    \/ \E c \in Callers : ProbeDone(c)
    \/ \E c \in Callers : GetSettingsBody(c)
    \/ \E c \in Callers : DismissBody(c)
    \/ \E c \in Callers : UpdateStepFallback(c)
    \/ \E c \in Callers : UpdateStepFind(c)
    \/ \E c \in Callers : UpdateStepUpsert(c)

SpecOnboarding == InitDb /\ [][NextOnboarding]_vars

\* request c enters hasOnboardingFields in this step
enters(c) == db.call[c].pc = "idle" /\ db'.call[c].pc # "idle"

\* C14 as stated: a call made less than CACHE_TTL after the last probe returns
\* the cached value without a query, a call made CACHE_TTL or more after it
\* probes, and the first call after clearFeatureCache probes; so no two probes
\* are less than CACHE_TTL apart.
C14_OneProbePerPeriod ==
    [][\A c \in Callers :
          enters(c) =>
              LET probes == db'.call[c].pc = "probing"
              IN  /\ (db.lastProbe # -1 /\ now - db.lastProbe < CACHE_TTL) =>
                        /\ ~probes
                        /\ db.cache.present
                        /\ db'.call[c].has = db.cache.value
                  /\ (db.lastProbe # -1 /\ now - db.lastProbe >= CACHE_TTL) => probes
                  /\ db.cleared => probes]_vars

\* C15 as stated: the value hasOnboardingFields returns is true exactly when
\* the column exists at the time of the call (a column that is added during
\* the call may be reported either way).
C15_ExactDetection ==
    \A c \in Callers :
        db.call[c].pc = "has" =>
            /\ db.call[c].has => db.columnExists
            /\ ~db.call[c].has => ~db.call[c].existedAtCall

C16_WitnessSelect ==
    /\ db.last.op = "getSettingsWithOnboarding"
    /\ ~db.last.has
    /\ db.last.selected = BasicFields
    /\ db.last.returned = "row"

----------------------------------------------------------------------------
(* insights.ts: generateInsights *)

DayMs == 1000 * 60 * 60 * 24
NoUpdate == -1         \* lastMLUpdate: null

\* the insights in the order of their if statements, with their static
\* fields; title, message and action do not bear on the selection
InsightTable ==
    <<[id |-> "no-visibility", type |-> "critical", priority |-> 1, score |-> 100],
      [id |-> "cart-disabled", type |-> "critical", priority |-> 1, score |-> 95],
      [id |-> "no-bundles", type |-> "critical", priority |-> 1, score |-> 97],
      [id |-> "no-clicks", type |-> "warning", priority |-> 2, score |-> 85],
      [id |-> "low-ctr", type |-> "warning", priority |-> 2, score |-> 82],
      [id |-> "low-conversion", type |-> "warning", priority |-> 2, score |-> 80],
      [id |-> "shipping-low", type |-> "warning", priority |-> 2, score |-> 78],
      [id |-> "ai-disabled", type |-> "warning", priority |-> 2, score |-> 77],
      [id |-> "first-sale", type |-> "success", priority |-> 3, score |-> 70],
      [id |-> "strong-roi", type |-> "success", priority |-> 3, score |-> 65],
      [id |-> "high-ctr", type |-> "success", priority |-> 3, score |-> 68],
      [id |-> "high-conversion", type |-> "success", priority |-> 3, score |-> 66],
      [id |-> "getting-started", type |-> "info", priority |-> 4, score |-> 60],
      [id |-> "ml-improving", type |-> "info", priority |-> 5, score |-> 55]>>

\* reachingRate < 15 && reachingRate > 0, with reachingRate the percentage
\* ordersReachingFreeShipping / totalOrders * 100, or 0 without orders
reachingRateLow(m) ==
    /\ m.totalOrders > 0
    /\ m.ordersReachingFreeShipping * 100 < 15 * m.totalOrders
    /\ m.ordersReachingFreeShipping * 100 > 0

\* Math.floor((Date.now() - lastMLUpdate) / DayMs)
daysSinceUpdate(m, t) == (t - m.lastMLUpdate) \div DayMs

\* the condition under which an insight is pushed
condition(id, m, t) ==
    CASE id = "no-visibility" -> ~m.recommendationsVisible /\ m.appInstalledDays > 3
      [] id = "cart-disabled" -> ~m.cartEnabled /\ m.totalOrders > 10
      [] id = "no-bundles" -> m.activeBundleCount = 0 /\ m.appInstalledDays > 7
      [] id = "no-clicks" -> m.recImpressions > 50 /\ m.recClicks = 0
      [] id = "low-ctr" -> m.recCTR < 2 /\ m.recImpressions > 100
      [] id = "low-conversion" -> m.recCTR > 3 /\ m.conversionRate < 1 /\ m.recClicks > 20
      [] id = "shipping-low" ->
            m.freeShippingEnabled /\ m.freeShippingThreshold > 0 /\ reachingRateLow(m)
      [] id = "ai-disabled" ->
            ~m.aiRecommendationsEnabled /\ m.totalOrders > 20 /\ m.activeBundleCount > 0
      [] id = "first-sale" -> m.attributedOrders = 1 /\ m.appInstalledDays < 30
      [] id = "strong-roi" -> m.roi > 10 /\ m.attributedRevenue > 100
      [] id = "high-ctr" -> m.recCTR > 5 /\ m.recImpressions > 50
      [] id = "high-conversion" -> m.conversionRate > 5 /\ m.recClicks > 20
      [] id = "getting-started" -> m.appInstalledDays < 7 /\ m.recImpressions < 10
      [] id = "ml-improving" ->
            m.lastMLUpdate # NoUpdate /\ m.mlPerformanceChange > 10 /\ daysSinceUpdate(m, t) < 7
      [] OTHER -> FALSE

\* the array insights after the first n if statements
RECURSIVE pushed(_, _, _)
pushed(m, t, n) ==
    IF n = 0 THEN <<>>
    ELSE LET before == pushed(m, t, n - 1)
         IN  IF condition(InsightTable[n].id, m, t)
             THEN Append(before, InsightTable[n])
             ELSE before

\* x is put behind the elements the comparator b.score - a.score does not
\* order after it
RECURSIVE insertByScore(_, _)
insertByScore(sorted, x) ==
    IF sorted = <<>> THEN <<x>>
    ELSE IF Head(sorted).score >= x.score
         THEN <<Head(sorted)>> \o insertByScore(Tail(sorted), x)
         ELSE <<x>> \o sorted

\* a faulty variant that leaves the array in the order of the pushes
unsorted(items) == items

\* insights.sort((a, b) => b.score - a.score)
RECURSIVE sortByScore(_)
sortByScore(items) ==
    IF items = <<>> THEN <<>>
    ELSE insertByScore(sortByScore(SubSeq(items, 1, Len(items) - 1)), items[Len(items)])

\* .slice(0, 4)
slice4(items) == SubSeq(items, 1, IF Len(items) < 4 THEN Len(items) ELSE 4)

\* ({ score: _score, ...rest }) => rest
withoutScore(item) == [k \in DOMAIN item \ {"score"} |-> item[k]]

generateInsights(m, t) ==
    LET top == slice4(sortByScore(pushed(m, t, Len(InsightTable))))
    IN  [i \in DOMAIN top |-> withoutScore(top[i])]

\* the metrics the dashboard may pass, as the product of a few profiles
InstalledDays == {2, 5, 10, 40}
OrderCounts == {0, 15, 25}
BundleCounts == {0, 2}

\* recImpressions, recClicks, recCTR, conversionRate
Engagement ==
    {<<0, 0, 0, 0>>, <<60, 0, 0, 0>>, <<150, 2, 1, 0>>, <<150, 0, 0, 0>>,
     <<500, 25, 5, 0>>, <<500, 30, 6, 6>>, <<500, 30, 6, 0>>}

\* attributedOrders, attributedRevenue, roi
Sales == {<<0, 0, 0>>, <<1, 50, 5>>, <<1, 150, 11>>, <<5, 500, 20>>}

\* freeShippingEnabled, freeShippingThreshold, ordersReachingFreeShipping
Shipping == {<<FALSE, 50, 1>>, <<TRUE, 0, 1>>, <<TRUE, 50, 0>>, <<TRUE, 50, 1>>,
             <<TRUE, 50, 3>>}

\* lastMLUpdate, mlPerformanceChange: never, a little under seven days ago,
\* seven days ago, in the future
Learning == {<<NoUpdate, 20>>, <<1, 20>>, <<0, 20>>, <<1, 5>>, <<8 * DayMs, 11>>}

\* Date.now() when the dashboard is rendered
Today == 7 * DayMs

MetricsSet ==
    {[cartEnabled |-> cart, recommendationsVisible |-> visible,
      appInstalledDays |-> days, totalOrders |-> orders, totalRevenue |-> 0,
      attributedRevenue |-> sale[2], attributedOrders |-> sale[1],
      activeBundleCount |-> bundles,
      recImpressions |-> eng[1], recClicks |-> eng[2], recCTR |-> eng[3],
      conversionRate |-> eng[4],
      aiRecommendationsEnabled |-> ai, freeShippingEnabled |-> ship[1],
      freeShippingThreshold |-> ship[2], ordersReachingFreeShipping |-> ship[3],
      roi |-> sale[3], lastMLUpdate |-> ml[1], mlPerformanceChange |-> ml[2]] :
        cart \in BOOLEAN, visible \in BOOLEAN, ai \in BOOLEAN, days \in InstalledDays,
        orders \in OrderCounts, bundles \in BundleCounts, eng \in Engagement,
        sale \in Sales, ship \in Shipping, ml \in Learning}

InitInsights ==
    /\ RateIdle
    /\ retry = NoRetry /\ hook = NoHook /\ authCall = NoAuthCall
    /\ proc = NoProc /\ db = NoDb
    /\ \E m \in MetricsSet : dash = [generated |-> FALSE, metrics |-> m, result |-> <<>>]

\* the dashboard calls generateInsights(metrics)
GenerateInsights ==
    /\ ~dash.generated
    /\ dash' = [dash EXCEPT !.generated = TRUE,
                            !.result = generateInsights(dash.metrics, Today)]
    /\ UNCHANGED <<rateVars, retry, hook, authCall, proc, db>>

NextInsights == GenerateInsights

SpecInsights == InitInsights /\ [][NextInsights]_vars

\* the static score of an id
scoreOf(id) == (CHOOSE i \in DOMAIN InsightTable : InsightTable[i].id = id)

\* the ids of the insights whose condition holds for the metrics
holding ==
    {InsightTable[i].id : i \in {j \in DOMAIN InsightTable :
                                    condition(InsightTable[j].id, dash.metrics, Today)}}

returnedIds == {dash.result[i].id : i \in DOMAIN dash.result}

\* C17: generateInsights returns at most 4 insights (all when fewer than 4
\* hold), in strictly descending order of static score, each one holding and
\* scored above every holding one that is left out; no returned object has a
\* score field and no id is returned twice.
C17_TopFourByScore ==
    dash.generated =>
        /\ Len(dash.result) <= 4
        /\ Cardinality(holding) < 4 => returnedIds = holding
        /\ Cardinality(holding) >= 4 => Len(dash.result) = 4
        /\ returnedIds \subseteq holding
        /\ \A i, j \in DOMAIN dash.result :
              i < j => InsightTable[scoreOf(dash.result[i].id)].score
                          > InsightTable[scoreOf(dash.result[j].id)].score
        /\ \A id \in holding \ returnedIds : \A i \in DOMAIN dash.result :
              InsightTable[scoreOf(id)].score < InsightTable[scoreOf(dash.result[i].id)].score
        /\ \A i \in DOMAIN dash.result : "score" \notin DOMAIN dash.result[i]
        /\ \A i, j \in DOMAIN dash.result : i # j => dash.result[i].id # dash.result[j].id

\* more than four insights hold, no-bundles among them although it is pushed
\* after cart-disabled, and the four returned start with the three critical
C17_Witness ==
    /\ dash.generated
    /\ Cardinality(holding) > 4
    /\ Len(dash.result) = 4
    /\ dash.result[1].id = "no-visibility"
    /\ dash.result[2].id = "no-bundles"
    /\ dash.result[3].id = "cart-disabled"

\* fewer than four hold, and they come back in score order, not push order
C17_WitnessFew ==
    /\ dash.generated
    /\ Len(dash.result) = 3
    /\ dash.result[1].id = "high-ctr"
    /\ dash.result[3].id = "strong-roi"

====
